---- MODULE Spec2Model ----
(***************************************************************************)
(* Model of the InfuraRateLimiter (src/src/models/Institution.ts, the part *)
(* headed "src/utils/rateLimiter.js"): the credit accountant, the dispatch *)
(* queue with its single drain loop, and the two reset timers.             *)
(*                                                                         *)
(* JavaScript runs one callback at a time, so every action below is one    *)
(* run-to-completion segment: from the moment a callback (a submit, a      *)
(* timer, the resumption of an await) starts until the code reaches its    *)
(* next await or returns.                                                  *)
(*                                                                         *)
(* Time is counted in periods of the per-second timer (one Tick is 1000    *)
(* ms); what happens less than a period apart happens at the same instant, *)
(* in any order.  A timer that is due fires before time advances.          *)
(***************************************************************************)
EXTENDS Integers, Sequences, FiniteSets, TLC

\* ------------------------------------------------------------------ bounds
MaxSubmits == 2
MaxThrottled == 2
BurstSubmits == 21      \* size of the largest burst submitted at one instant
MaxCost == 400          \* largest creditsPerOperation a batch size is asked for

\* ------------------------------------------------------- program constants
MAX_CREDITS_PER_DAY == 3000000
SAFE_CREDITS_PER_SECOND == 400
DEFAULT_CREDITS == 10
MAX_RETRIES == 3
THROTTLE_DELAY_MS == 1000
RESET_INTERVAL_MS == 1000
RATE_LIMIT_CODE == 429
MAX_BATCH_SIZE == 50
ASSUMED_CREDITS == 20
DELAY_BETWEEN_BATCHES == 3000
MAX_CONCURRENT_BATCHES == 1

CREDIT_COSTS ==
  [m \in {"eth_sendRawTransaction", "eth_call", "eth_getTransactionReceipt",
          "eth_getBalance", "eth_getBlockByNumber", "eth_gasPrice"} |->
     CASE m = "eth_sendRawTransaction" -> 20
       [] m = "eth_call" -> 15
       [] m = "eth_getTransactionReceipt" -> 15
       [] m = "eth_getBalance" -> 10
       [] m = "eth_getBlockByNumber" -> 10
       [] m = "eth_gasPrice" -> 5]

\* ------------------------------------------------------------ input domains
\* Methods the callers submit (two table entries of different cost).
SubmitMethods == {"eth_sendRawTransaction", "eth_call"}

\* How an executed operation ends: fulfilled, rejected with an error whose
\* code is 429, rejected with any other error object, rejected with null or
\* undefined (Promise.reject() / throw undefined).
Outcomes == {"ok", "e429", "err", "nullish"}

\* What the limiter has already served when the model starts watching it:
\* credits used earlier in the current second, credits used earlier in the
\* current day, and the number of calls that used them.  A fresh limiter,
\* and one that is 15 credits below both ceilings (149999 calls of 20
\* credits and one of 5, the last 20 calls within the current second).
PriorUsage ==
  {[second |-> 0, day |-> 0, calls |-> 0],
   [second |-> 385, day |-> 2999600, calls |-> 150000]}

\* The calendar days the daily check can observe, in order.
Days == {0, 1}

Ids == 1..MaxSubmits

VARIABLES
  secondlyCredits,  \* this.secondlyCredits
  dailyCredits,     \* this.dailyCredits
  lastResetDay,     \* this.lastResetDay (a day number instead of a date string)
  queue,            \* this.queue: sequence of request ids, head first
  processing,       \* this.processing
  stats,            \* this.stats
  reqs,             \* the request objects: id -> [method, retries, maxRetries]
  promise,          \* the promise queueRequest returned: id -> [state, value, calls]
  nextId,           \* number of submissions made so far + 1
  loops,            \* suspended processQueue activations: [pc, req, wait]
  secTimer,         \* ticks until the per-second interval timer is due
  recent,           \* credits of the executions started at the current instant
  trace,            \* history of execution starts and ends
  warned,           \* a 'warning' event was emitted since the last daily reset
  prior,            \* the element of PriorUsage the run started from
  startedToday,     \* credits of the attempts started since the last daily reset
  creditsPerOperation,  \* the argument a batch size is asked for
  advice            \* what the batch sizing functions last returned

vars == <<secondlyCredits, dailyCredits, lastResetDay, queue, processing, stats,
          reqs, promise, nextId, loops, secTimer, recent, trace, warned, prior,
          startedToday, creditsPerOperation, advice>>

\* What the queue, the drain loop and the per-second timer never write.
observers == <<warned, prior, creditsPerOperation, advice>>

\* Everything the batch sizing functions only read.
limiter == <<secondlyCredits, dailyCredits, lastResetDay, queue, processing, stats,
             reqs, promise, nextId, loops, secTimer, recent, trace, warned, prior,
             startedToday>>

\* ------------------------------------------------------------ pure helpers
\* setTimeout/setInterval delay in ticks.
delay(ms) == ms \div RESET_INTERVAL_MS

RECURSIVE Pow2(_)
Pow2(n) == IF n = 0 THEN 1 ELSE 2 * Pow2(n - 1)

\* A backoff computed from the retry count before its increment.
backoffMsOfOldCount(retries) == Pow2(retries - 1) * 1000

\* const backoffMs = Math.pow(2, request.retries) * 1000 (line 228).
backoffMs(retries) == Pow2(retries) * 1000

\* The payload of this.emit('retry', ...) (lines 230-234).
RetryEvent(method, retries) ==
  [method |-> method, retry |-> retries, backoffMs |-> backoffMs(retries)]

getCreditsForMethod(method) ==
  IF method \in DOMAIN CREDIT_COSTS THEN CREDIT_COSTS[method] ELSE DEFAULT_CREDITS

\* Property names every object literal inherits from Object.prototype; the
\* ones listed stand for all of them.
ObjectPrototypeKeys == {"constructor", "toString", "hasOwnProperty"}

\* this.CREDIT_COSTS[method] (line 142): the own property, else the property
\* inherited from Object.prototype (a function), else undefined.
PropertyLookup(method) ==
  IF method \in DOMAIN CREDIT_COSTS
    THEN [type |-> "number", value |-> CREDIT_COSTS[method]]
  ELSE IF method \in ObjectPrototypeKeys
    THEN [type |-> "function", value |-> 0]
  ELSE [type |-> "undefined", value |-> 0]

\* JavaScript truthiness of such a value.
Truthy(v) == v.type = "function" \/ (v.type = "number" /\ v.value # 0)

\* What getCreditsForMethod returns (line 142): lookup || 10.  Where it is a
\* number it is getCreditsForMethod(method) above; the callers of
\* rateLimitedWeb3Call pass only names of the table.
getCreditsForMethodValue(method) ==
  IF Truthy(PropertyLookup(method))
    THEN PropertyLookup(method)
    ELSE [type |-> "number", value |-> DEFAULT_CREDITS]

\* canProceed making the per-second check before the daily check.
canProceedPerSecondFirst(method, sc, dc) ==
  LET credits == getCreditsForMethod(method) IN
  IF sc + credits > SAFE_CREDITS_PER_SECOND
    THEN [allowed |-> FALSE, reason |-> "Per-second rate limit"]
  ELSE IF dc + credits > MAX_CREDITS_PER_DAY
    THEN [allowed |-> FALSE, reason |-> "Daily credit limit exceeded"]
  ELSE [allowed |-> TRUE, reason |-> "none"]

\* canProceed comparing the counter alone, not the counter plus the cost.
canProceedIgnoresCost(method, sc, dc) ==
  IF dc > MAX_CREDITS_PER_DAY
    THEN [allowed |-> FALSE, reason |-> "Daily credit limit exceeded"]
  ELSE IF sc > SAFE_CREDITS_PER_SECOND
    THEN [allowed |-> FALSE, reason |-> "Per-second rate limit"]
  ELSE [allowed |-> TRUE, reason |-> "none"]

canProceed(method, sc, dc) ==
  LET credits == getCreditsForMethod(method) IN
  IF dc + credits > MAX_CREDITS_PER_DAY
    THEN [allowed |-> FALSE, reason |-> "Daily credit limit exceeded"]
  ELSE IF sc + credits > SAFE_CREDITS_PER_SECOND
    THEN [allowed |-> FALSE, reason |-> "Per-second rate limit"]
  ELSE [allowed |-> TRUE, reason |-> "none"]

\* trackUsage that counts the request and charges nothing.
trackUsageUncharged(method, sc, dc, st) ==
  [sc |-> sc, dc |-> dc, st |-> [st EXCEPT !.totalRequests = @ + 1]]

\* trackUsage that leaves the daily counter alone.
trackUsageSkipsDaily(method, sc, dc, st) ==
  LET credits == getCreditsForMethod(method) IN
  [sc |-> sc + credits,
   dc |-> dc,
   st |-> [st EXCEPT !.dailyCreditsUsed = @ + credits, !.totalRequests = @ + 1]]

\* The counters after trackUsage(method).
trackUsage(method, sc, dc, st) ==
  LET credits == getCreditsForMethod(method) IN
  [sc |-> sc + credits,
   dc |-> dc + credits,
   st |-> [st EXCEPT !.dailyCreditsUsed = @ + credits, !.totalRequests = @ + 1]]

\* Number of execution attempts of request id started so far.
Attempts(tr, id) ==
  Cardinality({i \in 1..Len(tr) : tr[i].ev = "start" /\ tr[i].id = id})

RemoveAt(s, i) == SubSeq(s, 1, i - 1) \o SubSeq(s, i + 1, Len(s))

\* What the catch block reads as error.code; 0 stands for "not 429"
\* (undefined or any other code).
ErrorCode(out) == IF out = "e429" THEN RATE_LIMIT_CODE ELSE 0

\* A settlement that calls request.resolve whatever the outcome.
SettleAlwaysResolves(p, id, how, val) ==
  [p EXCEPT ![id] =
     [state |-> IF @.state = "pending" THEN "resolved" ELSE @.state,
      value |-> IF @.state = "pending" THEN val ELSE @.value,
      resolves |-> @.resolves + 1,
      rejects |-> @.rejects]]

\* request.resolve / request.reject: the first call settles the promise, a
\* later call would leave state and value as they are.
Settle(p, id, how, val) ==
  [p EXCEPT ![id] =
     [state |-> IF @.state = "pending" THEN how ELSE @.state,
      value |-> IF @.state = "pending" THEN val ELSE @.value,
      resolves |-> @.resolves + (IF how = "resolved" THEN 1 ELSE 0),
      rejects |-> @.rejects + (IF how = "rejected" THEN 1 ELSE 0)]]

NoAdvice == [kind |-> "none", batchSize |-> 0, delayBetweenBatches |-> 0,
             maxConcurrentBatches |-> 0]

Min(a, b) == IF a <= b THEN a ELSE b

\* A batch size computed from what is left of the current second.
calculateOptimalBatchSizeOfRemaining(c) ==
  Min((((SAFE_CREDITS_PER_SECOND - secondlyCredits) * 8) \div 10) \div c,
      MAX_BATCH_SIZE)

\* calculateOptimalBatchSize without the cap.
calculateOptimalBatchSizeUncapped(c) == ((SAFE_CREDITS_PER_SECOND * 8) \div 10) \div c

\* calculateOptimalBatchSize(creditsPerOperation) (lines 259-266).
\* SAFE_CREDITS_PER_SECOND * 0.8 is 320 exactly in floating point, and
\* Math.floor of the quotient of two integers is their integer quotient.
calculateOptimalBatchSize(c) ==
  LET availableCreditsPerSecond == (SAFE_CREDITS_PER_SECOND * 8) \div 10
      batchSize == availableCreditsPerSecond \div c
  IN Min(batchSize, MAX_BATCH_SIZE)

\* getOptimalBatchConfig() (lines 313-319).
getOptimalBatchConfig ==
  [kind |-> "config",
   batchSize |-> calculateOptimalBatchSize(ASSUMED_CREDITS),
   delayBetweenBatches |-> DELAY_BETWEEN_BATCHES,
   maxConcurrentBatches |-> MAX_CONCURRENT_BATCHES]

NoValue == [kind |-> "none", id |-> 0, attempt |-> 0]

Event(ev, id, out, attempt) == [ev |-> ev, id |-> id, out |-> out, attempt |-> attempt]

\* ------------------------------------------------------------------ Init
Init ==
  /\ \E u \in PriorUsage :
       LET ps == u.second
           pd == u.day
       IN
       /\ secondlyCredits = ps
       /\ dailyCredits = pd + ps
       /\ stats = [totalRequests |-> u.calls,
                   throttledRequests |-> 0,
                   failedRequests |-> 0,
                   dailyCreditsUsed |-> pd + ps]
       /\ recent = ps
       /\ prior = u
  /\ warned = FALSE
  /\ startedToday = 0
  /\ creditsPerOperation = ASSUMED_CREDITS
  /\ advice = NoAdvice
  /\ lastResetDay = 0
  /\ queue = <<>>
  /\ processing = FALSE
  /\ reqs = [id \in Ids |-> [method |-> "none", retries |-> 0, maxRetries |-> 0]]
  /\ promise = [id \in Ids |-> [state |-> "unsubmitted", value |-> NoValue,
                                resolves |-> 0, rejects |-> 0]]
  /\ nextId = 1
  /\ loops = <<>>
  /\ secTimer \in 0..delay(RESET_INTERVAL_MS)
  /\ trace = <<>>

\* ------------------------------------------------------- the drain loop
\* A submission that goes to the front of the queue.
EnqueueAtFront(q, request) == <<request>> \o q

\* this.queue.push(request) (line 180).
Enqueue(q, request) == Append(q, request)

\* A retry that goes to the back of the queue.
RequeueAtBack(q, request) == Append(q, request)

\* this.queue.unshift(request) (line 237).
Requeue(q, request) == <<request>> \o q

\* A retry test that allows one retry too many.
ShouldRetryOffByOne(out, request) ==
  ErrorCode(out) = RATE_LIMIT_CODE /\ request.retries <= request.maxRetries

\* A test for a retry that does not look at the number of retries made.
ShouldRetryUnbounded(out, request) == ErrorCode(out) = RATE_LIMIT_CODE

\* The catch block's test for a retry (line 225).
ShouldRetry(out, request) ==
  ErrorCode(out) = RATE_LIMIT_CODE /\ request.retries < request.maxRetries

\* An early return that does not look at the processing flag.
BusyIgnoresFlag(q) == Len(q) = 0

\* processQueue's early return (lines 197-199).
Busy(q) == processing \/ Len(q) = 0

OnDeniedRejects(q, st) ==
  [queue |-> Tail(q),
   stats |-> [st EXCEPT !.throttledRequests = @ + 1, !.failedRequests = @ + 1]]

\* What the loop does to the queue and the statistics when canProceed denies
\* the head (lines 207-214): it counts the denial and waits; nothing is
\* shifted, resolved or rejected.
OnDenied(q, st) ==
  [queue |-> q, stats |-> [st EXCEPT !.throttledRequests = @ + 1]]

\* A 'throttled' event that always gives the per-second reason.
ThrottledEventOneReason(method, cp) ==
  [method |-> method, reason |-> "Per-second rate limit"]

\* The payload of this.emit('throttled', ...) (line 210).
ThrottledEvent(method, cp) == [method |-> method, reason |-> cp.reason]

\* One pass of processQueue's while loop, from the loop test to the next
\* await or to the end of the function (lines 203-222 and 246).  `others`
\* are the other suspended activations, pr the value of this.processing.
WhileLoop(q, sc, dc, st, rq, others, pr, tr) ==
  IF Len(q) = 0 THEN
    /\ processing' = FALSE
    /\ loops' = others
    /\ queue' = q
    /\ secondlyCredits' = sc
    /\ dailyCredits' = dc
    /\ stats' = st
    /\ trace' = tr
    /\ recent' = recent
    /\ startedToday' = startedToday
  ELSE
    LET request == Head(q)
        method == rq[request].method
        cp == canProceed(method, sc, dc)
        used == trackUsage(method, sc, dc, st)
    IN
    IF ~cp.allowed THEN
      /\ st.throttledRequests < MaxThrottled
      /\ processing' = pr
      /\ stats' = OnDenied(q, st).stats
      /\ loops' = Append(others, [pc |-> "throttle", req |-> 0,
                                  wait |-> delay(THROTTLE_DELAY_MS),
                                  emitted |-> ThrottledEvent(method, cp)])
      /\ queue' = OnDenied(q, st).queue
      /\ secondlyCredits' = sc
      /\ dailyCredits' = dc
      /\ trace' = tr
      /\ recent' = recent
      /\ startedToday' = startedToday
    ELSE
      /\ processing' = pr
      /\ queue' = Tail(q)
      /\ secondlyCredits' = used.sc
      /\ dailyCredits' = used.dc
      /\ stats' = used.st
      /\ loops' = Append(others, [pc |-> "exec", req |-> request, wait |-> 0])
      /\ trace' = Append(tr, Event("start", request, "none", Attempts(tr, request) + 1))
      /\ recent' = recent + getCreditsForMethod(method)
      /\ startedToday' = startedToday + getCreditsForMethod(method)

\* processQueue() called with the queue q and the per-second counter sc
\* (lines 196-203).
processQueue(q, sc, rq) ==
  IF Busy(q) THEN
    /\ queue' = q
    /\ secondlyCredits' = sc
    /\ UNCHANGED <<dailyCredits, stats, loops, processing, trace, recent,
                   startedToday>>
  ELSE
    WhileLoop(q, sc, dailyCredits, stats, rq, loops, TRUE, trace)

\* ---------------------------------------------------------------- actions
\* queueRequest(method, executeFn) (lines 178-191).
queueRequest(method) ==
  /\ nextId <= MaxSubmits
  /\ LET rq == [reqs EXCEPT ![nextId] =
                  [method |-> method, retries |-> 0, maxRetries |-> MAX_RETRIES]]
     IN /\ reqs' = rq
        /\ promise' = [promise EXCEPT ![nextId].state = "pending"]
        /\ nextId' = nextId + 1
        /\ processQueue(Enqueue(queue, nextId), secondlyCredits, rq)
  /\ UNCHANGED <<lastResetDay, secTimer>>
  /\ UNCHANGED observers

\* A per-second callback that runs the drain loop whether or not one is
\* already active.
SecondResetRunsLoop ==
  /\ secTimer = 0
  /\ secTimer' = delay(RESET_INTERVAL_MS)
  /\ WhileLoop(queue, 0, dailyCredits, stats, reqs, loops, TRUE, trace)
  /\ UNCHANGED <<lastResetDay, reqs, promise, nextId>>
  /\ UNCHANGED observers

\* The per-second interval callback (lines 121-125).
SecondReset ==
  /\ secTimer = 0
  /\ secTimer' = delay(RESET_INTERVAL_MS)
  /\ processQueue(queue, 0, reqs)
  /\ UNCHANGED <<lastResetDay, reqs, promise, nextId>>
  /\ UNCHANGED observers

\* A daily check that clears every statistic on a day change.
DailyResetClearsStats(currentDay) ==
  /\ currentDay \in Days
  /\ currentDay >= lastResetDay
  /\ IF currentDay # lastResetDay
       THEN /\ dailyCredits' = 0
            /\ lastResetDay' = currentDay
            /\ stats' = [totalRequests |-> 0, throttledRequests |-> 0,
                         failedRequests |-> 0, dailyCreditsUsed |-> 0]
            /\ warned' = FALSE
            /\ startedToday' = 0
       ELSE UNCHANGED <<dailyCredits, lastResetDay, stats, warned, startedToday>>
  /\ UNCHANGED <<secondlyCredits, queue, processing, reqs, promise, nextId, loops,
                 secTimer, recent, trace, prior, creditsPerOperation, advice>>

\* A daily check that clears dailyCredits and leaves the statistics as they are.
DailyResetKeepsStats(currentDay) ==
  /\ currentDay \in Days
  /\ currentDay >= lastResetDay
  /\ IF currentDay # lastResetDay
       THEN /\ dailyCredits' = 0
            /\ lastResetDay' = currentDay
            /\ warned' = FALSE
            /\ startedToday' = 0
       ELSE UNCHANGED <<dailyCredits, lastResetDay, warned, startedToday>>
  /\ UNCHANGED <<secondlyCredits, stats, queue, processing, reqs, promise, nextId,
                 loops, secTimer, recent, trace, prior, creditsPerOperation,
                 advice>>

\* A daily check that records the new day and leaves dailyCredits as it is.
DailyResetKeepsCredits(currentDay) ==
  /\ currentDay \in Days
  /\ currentDay >= lastResetDay
  /\ IF currentDay # lastResetDay
       THEN /\ lastResetDay' = currentDay
            /\ stats' = [stats EXCEPT !.dailyCreditsUsed = 0]
            /\ warned' = FALSE
            /\ startedToday' = 0
       ELSE UNCHANGED <<lastResetDay, stats, warned, startedToday>>
  /\ UNCHANGED <<secondlyCredits, dailyCredits, queue, processing, reqs, promise,
                 nextId, loops, secTimer, recent, trace, prior,
                 creditsPerOperation, advice>>

\* A daily check that clears the daily counters whatever the date is.
DailyResetEveryCheck(currentDay) ==
  /\ currentDay \in Days
  /\ currentDay >= lastResetDay
  /\ dailyCredits' = 0
  /\ lastResetDay' = currentDay
  /\ stats' = [stats EXCEPT !.dailyCreditsUsed = 0]
  /\ warned' = FALSE
  /\ startedToday' = 0
  /\ UNCHANGED <<secondlyCredits, queue, processing, reqs, promise, nextId, loops,
                 secTimer, recent, trace, prior, creditsPerOperation, advice>>

\* The per-minute interval callback (lines 128-135).  Its phase relative to
\* everything else is arbitrary, so it may fire at any instant.  currentDay
\* is what new Date().toDateString() returns: the day the previous check
\* saw or a later one.
DailyReset(currentDay) ==
  /\ currentDay \in Days
  /\ currentDay >= lastResetDay
  /\ IF currentDay # lastResetDay
       THEN /\ dailyCredits' = 0
            /\ lastResetDay' = currentDay
            /\ stats' = [stats EXCEPT !.dailyCreditsUsed = 0]
            /\ warned' = FALSE
            /\ startedToday' = 0
       ELSE UNCHANGED <<dailyCredits, lastResetDay, stats, warned, startedToday>>
  /\ UNCHANGED <<secondlyCredits, queue, processing, reqs, promise, nextId, loops,
                 secTimer, recent, trace, prior, creditsPerOperation, advice>>

\* getStats counting the operation in flight as queued.
getStatsCountsInFlight ==
  [totalRequests |-> stats.totalRequests,
   throttledRequests |-> stats.throttledRequests,
   failedRequests |-> stats.failedRequests,
   dailyCreditsUsed |-> stats.dailyCreditsUsed,
   currentSecondCredits |-> secondlyCredits,
   currentDayCredits |-> dailyCredits,
   remainingDailyCredits |-> MAX_CREDITS_PER_DAY - dailyCredits,
   queueLength |-> Len(queue) + Len(loops)]

\* this.getStats() (lines 271-279).
getStats ==
  [totalRequests |-> stats.totalRequests,
   throttledRequests |-> stats.throttledRequests,
   failedRequests |-> stats.failedRequests,
   dailyCreditsUsed |-> stats.dailyCreditsUsed,
   currentSecondCredits |-> secondlyCredits,
   currentDayCredits |-> dailyCredits,
   remainingDailyCredits |-> MAX_CREDITS_PER_DAY - dailyCredits,
   queueLength |-> Len(queue)]

\* The interval callback startMonitoring installs (lines 285-294).  It
\* exists only once startMonitoring has been called, and its period is the
\* caller's choice, so it may fire at any instant or not at all.  The test
\* currentDayCredits > MAX_CREDITS_PER_DAY * 0.8 is made on integers.
Monitor ==
  /\ warned' = (warned \/ getStats.currentDayCredits * 10 > MAX_CREDITS_PER_DAY * 8)
  /\ UNCHANGED <<secondlyCredits, dailyCredits, lastResetDay, queue, processing,
                 stats, reqs, promise, nextId, loops, secTimer, recent, trace,
                 prior, startedToday, creditsPerOperation, advice>>

\* `await this.delay(1000)` returns and the loop re-evaluates (lines 213-214).
ThrottleWake(i) ==
  /\ i \in 1..Len(loops)
  /\ loops[i].pc = "throttle"
  /\ loops[i].wait = 0
  /\ WhileLoop(queue, secondlyCredits, dailyCredits, stats, reqs,
               RemoveAt(loops, i), processing, trace)
  /\ UNCHANGED <<lastResetDay, reqs, promise, nextId, secTimer>>
  /\ UNCHANGED observers

\* `await request.executeFn()` returns or throws (lines 222-243).
Complete(i, out) ==
  /\ i \in 1..Len(loops)
  /\ loops[i].pc = "exec"
  /\ LET request == loops[i].req
         others == RemoveAt(loops, i)
         n == Attempts(trace, request)
         val == [kind |-> out, id |-> request, attempt |-> n]
     IN
     IF out = "ok" THEN
       /\ promise' = Settle(promise, request, "resolved", val)
       /\ reqs' = reqs
       /\ WhileLoop(queue, secondlyCredits, dailyCredits, stats, reqs, others,
                    processing, Append(trace, Event("resolve", request, out, n)))
     ELSE IF out = "nullish" THEN
       \* error.code throws a TypeError inside the catch block: the async
       \* function ends rejected, nothing after line 225 runs.
       /\ loops' = others
       /\ trace' = Append(trace, Event("crash", request, out, n))
       /\ UNCHANGED <<secondlyCredits, dailyCredits, queue, processing, stats,
                      reqs, promise, recent, startedToday>>
     ELSE IF ShouldRetry(out, reqs[request]) THEN
       /\ reqs' = [reqs EXCEPT ![request].retries = @ + 1]
       /\ loops' = Append(others,
                      [pc |-> "backoff", req |-> request,
                       wait |-> delay(backoffMs(reqs[request].retries + 1)),
                       emitted |-> RetryEvent(reqs[request].method,
                                              reqs[request].retries + 1)])
       /\ trace' = Append(trace, Event("retry", request, out, n))
       /\ UNCHANGED <<secondlyCredits, dailyCredits, queue, processing, stats,
                      promise, recent, startedToday>>
     ELSE
       /\ promise' = Settle(promise, request, "rejected", val)
       /\ reqs' = reqs
       /\ WhileLoop(queue, secondlyCredits, dailyCredits,
                    [stats EXCEPT !.failedRequests = @ + 1], reqs, others,
                    processing, Append(trace, Event("reject", request, out, n)))
  /\ UNCHANGED <<lastResetDay, nextId, secTimer>>
  /\ UNCHANGED observers

\* A wake from backoff that executes the request again at once, with no
\* admission check and no charge.
BackoffWakeSkipsAdmission(i) ==
  /\ i \in 1..Len(loops)
  /\ loops[i].pc = "backoff"
  /\ loops[i].wait = 0
  /\ loops' = Append(RemoveAt(loops, i), [pc |-> "exec", req |-> loops[i].req, wait |-> 0])
  /\ trace' = Append(trace, Event("start", loops[i].req, "none",
                                  Attempts(trace, loops[i].req) + 1))
  /\ stats' = [stats EXCEPT !.totalRequests = @ + 1]
  /\ UNCHANGED <<secondlyCredits, dailyCredits, queue, processing, recent,
                 startedToday>>
  /\ UNCHANGED <<lastResetDay, reqs, promise, nextId, secTimer>>
  /\ UNCHANGED observers

\* `await this.delay(backoffMs)` returns: the request goes back to the front
\* and the loop continues (lines 236-237).
BackoffWake(i) ==
  /\ i \in 1..Len(loops)
  /\ loops[i].pc = "backoff"
  /\ loops[i].wait = 0
  /\ WhileLoop(Requeue(queue, loops[i].req), secondlyCredits, dailyCredits, stats,
               reqs, RemoveAt(loops, i), processing, trace)
  /\ UNCHANGED <<lastResetDay, reqs, promise, nextId, secTimer>>
  /\ UNCHANGED observers

\* Time advances by one tick; no timer is due.
Tick ==
  /\ secTimer > 0
  /\ \A i \in 1..Len(loops) : loops[i].pc \in {"throttle", "backoff"} => loops[i].wait > 0
  /\ secTimer' = secTimer - 1
  /\ loops' = [i \in 1..Len(loops) |->
                 IF loops[i].pc \in {"throttle", "backoff"}
                   THEN [loops[i] EXCEPT !.wait = @ - 1] ELSE loops[i]]
  /\ recent' = 0
  /\ UNCHANGED <<secondlyCredits, dailyCredits, lastResetDay, queue, processing,
                 stats, reqs, promise, nextId, trace, startedToday>>
  /\ UNCHANGED observers

Next ==
  \/ \E m \in SubmitMethods : queueRequest(m)
  \/ SecondReset
  \/ \E currentDay \in Days : DailyReset(currentDay)
  \/ Monitor
  \/ \E i \in 1..Len(loops) : ThrottleWake(i)
  \/ \E i \in 1..Len(loops), out \in Outcomes : Complete(i, out)
  \/ \E i \in 1..Len(loops) : BackoffWake(i)
  \/ Tick

Spec == Init /\ [][Next]_vars

\* The event loop keeps running: time passes, due timers fire, a resumed
\* await continues, and every started operation completes.
FairSpec ==
  /\ Spec
  /\ WF_vars(Tick)
  /\ WF_vars(SecondReset)
  /\ WF_vars(\E i \in 1..Len(loops) : ThrottleWake(i))
  /\ WF_vars(\E i \in 1..Len(loops) : BackoffWake(i))
  /\ WF_vars(\E i \in 1..Len(loops), out \in Outcomes : Complete(i, out))

\* ------------------------------------------------------------- type check
TypeOK ==
  /\ secondlyCredits \in Nat
  /\ dailyCredits \in Nat
  /\ processing \in BOOLEAN
  /\ \A i \in 1..Len(queue) : queue[i] \in Ids
  /\ nextId \in 1..(MaxSubmits + 1)
  /\ secTimer \in 0..delay(RESET_INTERVAL_MS)
  /\ warned \in BOOLEAN
  /\ prior \in PriorUsage
  /\ startedToday \in Nat
  /\ creditsPerOperation \in 1..MaxCost
  /\ advice.kind \in {"none", "size", "config"}

\* ------------------------------------------------- definitions for claims
Throttled == \E i \in 1..Len(loops) : loops[i].pc = "throttle"
InFlight == {i \in 1..Len(loops) : loops[i].pc = "exec"}
InBackoff == {i \in 1..Len(loops) : loops[i].pc = "backoff"}
Positions == 1..Len(trace)
EndEvents == {"resolve", "retry", "reject", "crash"}

\* C1: the per-second and the daily counter stay within [0, ceiling] in every
\* reachable state.
C1_CountersWithinCeilings ==
  /\ 0 <= secondlyCredits /\ secondlyCredits <= SAFE_CREDITS_PER_SECOND
  /\ 0 <= dailyCredits /\ dailyCredits <= MAX_CREDITS_PER_DAY

\* Both counters stand at their ceiling after an admission, and the next
\* head has been denied.
C1_Witness ==
  /\ secondlyCredits = SAFE_CREDITS_PER_SECOND
  /\ dailyCredits = MAX_CREDITS_PER_DAY
  /\ Throttled
  /\ Len(trace) > 0

\* C2: the credits of the executions started less than one second apart
\* never exceed SAFE_CREDITS_PER_SECOND, wherever the interval lies relative
\* to the per-second reset.
C2_RollingWindow == recent <= SAFE_CREDITS_PER_SECOND

\* C3: at most one processQueue activation exists; a per-second tick or a
\* submit that finds one active starts no other and leaves the queue alone
\* (the submit only appends its own entry).
C3_MutualExclusion ==
  /\ [](Len(loops) <= 1 /\ (Len(loops) = 1 => processing))
  /\ [][(Len(loops) = 1 /\ secTimer' > secTimer)
          => (loops' = loops /\ queue' = queue)]_vars
  /\ [][(Len(loops) = 1 /\ nextId' # nextId)
          => (loops' = loops /\ queue' = Append(queue, nextId))]_vars

\* A submit arrived while the only activation was awaiting an operation, after
\* a per-second tick had passed with the loop throttled.
C3_Witness ==
  /\ Len(loops) = 1
  /\ loops[1].pc = "exec"
  /\ Len(queue) >= 1
  /\ stats.throttledRequests >= 1

\* C4: at most one operation is in flight, and in the history every start is
\* followed by the end of that same attempt before anything else starts.
C4_OneInFlight ==
  /\ Cardinality(InFlight) <= 1
  /\ \A i \in Positions :
       (trace[i].ev = "start" /\ i < Len(trace))
         => (trace[i + 1].ev \in EndEvents /\ trace[i + 1].id = trace[i].id)
  /\ \A i \in InFlight :
       /\ trace[Len(trace)].ev = "start"
       /\ trace[Len(trace)].id = loops[i].req

\* Two operations were submitted together; the second started only after the
\* first had ended.
C4_Witness ==
  /\ Len(trace) >= 3
  /\ trace[3].ev = "start"
  /\ trace[3].id = 2
  /\ Cardinality(InFlight) = 1

\* C5: resolve/reject is called at most once per submission, never both; a
\* resolved promise carries the result of an attempt of its own operation, a
\* rejected one the error of an attempt of its own operation.
C5_SettledAtMostOnce ==
  \A id \in Ids :
    LET p == promise[id] IN
    /\ p.resolves + p.rejects <= 1
    /\ p.state \in {"unsubmitted", "pending"} => p.resolves + p.rejects = 0
    /\ p.state = "resolved" =>
         /\ p.resolves = 1
         /\ p.value = [kind |-> "ok", id |-> id, attempt |-> Attempts(trace, id)]
         /\ \E i \in Positions : trace[i] = Event("resolve", id, "ok", p.value.attempt)
    /\ p.state = "rejected" =>
         /\ p.rejects = 1
         /\ p.value.kind \in {"e429", "err"}
         /\ p.value.id = id
         /\ p.value.attempt = Attempts(trace, id)
         /\ \E i \in Positions :
              trace[i] = Event("reject", id, p.value.kind, p.value.attempt)

\* One submission was resolved and another rejected.
C5_Witness ==
  \E a, b \in Ids : promise[a].state = "resolved" /\ promise[b].state = "rejected"

\* The head of the queue is denied by the daily limit, or the model's cap on
\* the throttle counter has been reached.
QuotaExhausted ==
  \/ stats.throttledRequests >= MaxThrottled
  \/ /\ Len(queue) > 0
     /\ dailyCredits + getCreditsForMethod(reqs[Head(queue)].method)
          > MAX_CREDITS_PER_DAY

\* C6: under FairSpec (time passes, timers fire, every started operation
\* completes) every pending submission is eventually resolved or rejected,
\* unless the daily quota is exhausted.
C6_EventualSettlement ==
  \A id \in Ids :
    (promise[id].state = "pending")
      ~> (promise[id].state \in {"resolved", "rejected"} \/ QuotaExhausted)

\* C7: once an attempt has ended in a retry, the next thing to start is the
\* retry of that same operation, and nothing else starts before that retry
\* attempt has ended.
C7_RetryPrecedence ==
  /\ \A i \in Positions :
       trace[i].ev = "retry" =>
         /\ i < Len(trace) =>
              trace[i + 1] = Event("start", trace[i].id, "none", trace[i].attempt + 1)
         /\ i + 1 < Len(trace) =>
              (trace[i + 2].id = trace[i].id /\ trace[i + 2].ev \in EndEvents)
         /\ i = Len(trace) => InFlight = {}
  /\ \A i \in InBackoff :
       /\ InFlight = {}
       /\ trace[Len(trace)] = Event("retry", loops[i].req, "e429", Attempts(trace, loops[i].req))

\* A failed once with 429 and was retried; B, submitted after A, started only
\* after A's retry attempt had ended.
C7_Witness ==
  /\ Len(trace) >= 5
  /\ trace[1] = Event("start", 1, "none", 1)
  /\ trace[2] = Event("retry", 1, "e429", 1)
  /\ trace[3] = Event("start", 1, "none", 2)
  /\ trace[4].id = 1
  /\ trace[5] = Event("start", 2, "none", 1)

\* C8: an operation starts only when every operation submitted before it has
\* been resolved or rejected.
C8_StrictFIFO ==
  \A i \in Positions :
    trace[i].ev = "start" =>
      \A x \in 1..(trace[i].id - 1) :
        \E j \in 1..(i - 1) : trace[j].id = x /\ trace[j].ev \in {"resolve", "reject"}

\* The head is denied and waits while the entry behind it would be admitted
\* under the current counters.
C8_Witness ==
  /\ Throttled
  /\ Len(queue) >= 2
  /\ ~canProceed(reqs[queue[1]].method, secondlyCredits, dailyCredits).allowed
  /\ canProceed(reqs[queue[2]].method, secondlyCredits, dailyCredits).allowed
  /\ InFlight = {}

\* Every attempt of id that has ended so far ended with the 429 error.
All429(id) ==
  \A i \in Positions :
    (trace[i].id = id /\ trace[i].ev \in EndEvents) => trace[i].out = "e429"

Ended(id) == {i \in Positions : trace[i].id = id /\ trace[i].ev \in EndEvents}
Rejections(id) == {i \in Positions : trace[i].id = id /\ trace[i].ev = "reject"}

\* C9: an operation whose attempts all fail with 429 is never executed more
\* than 1 + MAX_RETRIES times; it stays pending until its attempt number
\* 1 + MAX_RETRIES has failed, and is then rejected with the error of that
\* attempt, failedRequests counting it once.
C9_BoundedRetries ==
  /\ \A id \in Ids :
       All429(id) =>
         /\ Attempts(trace, id) <= 1 + MAX_RETRIES
         /\ reqs[id].retries = (IF Ended(id) = {} THEN 0
                                ELSE Cardinality(Ended(id)) - Cardinality(Rejections(id)))
         /\ promise[id].state # "resolved"
         /\ Cardinality(Ended(id)) <= MAX_RETRIES =>
              promise[id].state \in {"unsubmitted", "pending"}
         /\ Cardinality(Ended(id)) = 1 + MAX_RETRIES =>
              /\ promise[id].state = "rejected"
              /\ promise[id].value =
                   [kind |-> "e429", id |-> id, attempt |-> 1 + MAX_RETRIES]
              /\ Cardinality(Rejections(id)) = 1
  /\ stats.failedRequests = Cardinality({i \in Positions : trace[i].ev = "reject"})

\* An operation has been rejected with the 429 error of its fourth attempt.
C9_Witness ==
  \E id \in Ids :
    /\ promise[id].state = "rejected"
    /\ promise[id].value = [kind |-> "e429", id |-> id, attempt |-> 1 + MAX_RETRIES]

\* C10: an attempt that ended with an error other than the 429 signal has
\* rejected its caller with that very error, was not retried, left the entry
\* neither queued nor held, and was counted once in failedRequests.
C10_PermanentFailure ==
  /\ \A i \in Positions :
       (trace[i].ev \in EndEvents /\ trace[i].out \in {"err", "nullish"}) =>
         LET id == trace[i].id IN
         /\ promise[id].state = "rejected"
         /\ promise[id].value =
              [kind |-> trace[i].out, id |-> id, attempt |-> trace[i].attempt]
         /\ \A j \in (i + 1)..Len(trace) : trace[j].id # id
         /\ \A k \in 1..Len(queue) : queue[k] # id
         /\ \A k \in 1..Len(loops) : loops[k].req # id
  /\ stats.failedRequests =
       Cardinality({i \in Positions :
                      /\ trace[i].ev \in EndEvents
                      /\ \/ trace[i].out \in {"err", "nullish"}
                         \/ trace[i].out = "e429" /\ trace[i].attempt = 1 + MAX_RETRIES})

\* ---------------------------------------------------------------- C11-C20
RejectEvents(tr) == {i \in 1..Len(tr) : tr[i].ev = "reject"}
\* s occurs in t as a contiguous block: t is s with entries put in front of
\* it (a retried entry coming back) or behind it (a new submission).
KeptIn(s, t) ==
  \E k \in 0..(Len(t) - Len(s)) : SubSeq(t, k + 1, k + Len(s)) = s
DenialStep == stats'.throttledRequests > stats.throttledRequests

\* C11: a denial is never surfaced as a failure.  While the loop waits on a
\* denied head the queue is not empty and every queued entry's promise is
\* pending; the step that denies keeps every queued entry in place, settles
\* none of them, and raises failedRequests only by the rejections of
\* operations that ended in that step.  So with dailyCredits at the ceiling
\* a submitted entry stays queued and pending.
C11_DenialIsNotFailure ==
  /\ [](Throttled => Len(queue) >= 1)
  /\ [](\A i \in 1..Len(queue) : promise[queue[i]].state = "pending")
  /\ [][DenialStep =>
          /\ KeptIn(queue, queue')
          /\ \A i \in 1..Len(queue') : promise'[queue'[i]].state = "pending"
          /\ stats'.failedRequests - stats.failedRequests
               = Cardinality(RejectEvents(trace')) - Cardinality(RejectEvents(trace))]_vars

\* The daily counter is at its ceiling, the loop has been denied, and the
\* submitted entry is still queued with its promise pending.
C11_Witness ==
  /\ dailyCredits = MAX_CREDITS_PER_DAY
  /\ Throttled
  /\ Len(queue) >= 1
  /\ promise[Head(queue)].state = "pending"
  /\ stats.failedRequests = 0

\* A burst: up to BurstSubmits calls of one method made in one synchronous
\* run of the caller on a limiter just constructed, so every queueRequest of
\* the burst runs before the first operation completes.
BurstMethod == "eth_sendRawTransaction"
BurstIds == 1..BurstSubmits

InitBurst ==
  /\ secondlyCredits = 0
  /\ dailyCredits = 0
  /\ stats = [totalRequests |-> 0, throttledRequests |-> 0, failedRequests |-> 0,
              dailyCreditsUsed |-> 0]
  /\ recent = 0
  /\ prior = [second |-> 0, day |-> 0, calls |-> 0]
  /\ warned = FALSE
  /\ startedToday = 0
  /\ creditsPerOperation = ASSUMED_CREDITS
  /\ advice = NoAdvice
  /\ lastResetDay = 0
  /\ queue = <<>>
  /\ processing = FALSE
  /\ reqs = [id \in BurstIds |-> [method |-> "none", retries |-> 0, maxRetries |-> 0]]
  /\ promise = [id \in BurstIds |-> [state |-> "unsubmitted", value |-> NoValue,
                                     resolves |-> 0, rejects |-> 0]]
  /\ nextId = 1
  /\ loops = <<>>
  /\ secTimer \in 0..delay(RESET_INTERVAL_MS)
  /\ trace = <<>>

\* One queueRequest of the burst (lines 178-191).
SubmitTogether ==
  /\ nextId <= BurstSubmits
  /\ Len(trace) <= 1
  /\ LET rq == [reqs EXCEPT ![nextId] =
                  [method |-> BurstMethod, retries |-> 0, maxRetries |-> MAX_RETRIES]]
     IN /\ reqs' = rq
        /\ promise' = [promise EXCEPT ![nextId].state = "pending"]
        /\ nextId' = nextId + 1
        /\ processQueue(Enqueue(queue, nextId), secondlyCredits, rq)
  /\ UNCHANGED <<lastResetDay, secTimer>>
  /\ UNCHANGED observers

\* The operations of the burst all succeed.
NextBurst ==
  \/ SubmitTogether
  \/ SecondReset
  \/ \E i \in 1..Len(loops) : ThrottleWake(i)
  \/ \E i \in 1..Len(loops) : Complete(i, "ok")
  \/ Tick

SpecBurst == InitBurst /\ [][NextBurst]_vars

Started == Cardinality({i \in Positions : trace[i].ev = "start"})

\* C13: of the operations of one cost c submitted together to an idle limiter
\* with secondlyCredits = 0, at most SAFE_CREDITS_PER_SECOND \div c have
\* started while less than a second has passed since the submission (recent
\* still holds the credits of every start there has been).
C13_BurstFirstSecond ==
  (nextId > 1 /\ recent = getCreditsForMethod(BurstMethod) * Started)
    => Started <= SAFE_CREDITS_PER_SECOND \div getCreditsForMethod(BurstMethod)

\* C12: whenever dailyCredits has reached MAX_CREDITS_PER_DAY, a 'warning'
\* event of type daily_limit has been emitted since the last daily reset.
C12_WarnedBeforeExhaustion == (dailyCredits = MAX_CREDITS_PER_DAY) => warned

\* Method names canProceed and getCreditsForMethod are evaluated on: the
\* table's, one that is in no table, and names Object.prototype defines.
TableMethods == DOMAIN CREDIT_COSTS
MethodInputs == TableMethods \cup {"eth_blockNumber"}
AnyMethodInputs == MethodInputs \cup ObjectPrototypeKeys

\* C14: with cost = getCreditsForMethod(method), canProceed denies iff
\* dailyCredits + cost > MAX_CREDITS_PER_DAY or secondlyCredits + cost >
\* SAFE_CREDITS_PER_SECOND (a sum equal to the ceiling is allowed), and when
\* the daily sum is over its ceiling the reason is the daily one whatever the
\* per-second sum is.  canProceed is an operator on the counters: it assigns
\* nothing.
C14_DecisionTable ==
  \A method \in MethodInputs :
    LET cost == getCreditsForMethod(method)
        overDay == dailyCredits + cost > MAX_CREDITS_PER_DAY
        overSecond == secondlyCredits + cost > SAFE_CREDITS_PER_SECOND
        r == canProceed(method, secondlyCredits, dailyCredits)
    IN /\ r.allowed <=> ~(overDay \/ overSecond)
       /\ overDay => r.reason = "Daily credit limit exceeded"
       /\ (~overDay /\ overSecond) => r.reason = "Per-second rate limit"
       /\ r.allowed => r.reason = "none"

\* An operation was admitted with both sums exactly at their ceilings, and now
\* every method is over both limits.
C14_Witness ==
  /\ secondlyCredits = SAFE_CREDITS_PER_SECOND
  /\ dailyCredits = MAX_CREDITS_PER_DAY
  /\ Started >= 1
  /\ Throttled

\* The methods of the requests submitted so far.
MethodsSeen == {reqs[id].method : id \in DOMAIN reqs} \ {"none"}

\* C15: getCreditsForMethod returns the table entry for a method of the
\* table and DEFAULT_CREDITS for every other method; the result is a positive
\* integer not above SAFE_CREDITS_PER_SECOND.
C15_CostModel ==
  \A method \in AnyMethodInputs \cup MethodsSeen :
    LET v == getCreditsForMethodValue(method) IN
    /\ v.type = "number"
    /\ v.value > 0
    /\ v.value <= SAFE_CREDITS_PER_SECOND
    /\ (method \in TableMethods) => v.value = CREDIT_COSTS[method]
    /\ (method \notin TableMethods) => v.value = DEFAULT_CREDITS

\* C16: no transition decreases totalRequests, throttledRequests or
\* failedRequests.
C16_StatsMonotonic ==
  [][/\ stats'.totalRequests >= stats.totalRequests
     /\ stats'.throttledRequests >= stats.throttledRequests
     /\ stats'.failedRequests >= stats.failedRequests]_vars

\* All three counters have advanced and a daily reset has been through.
C16_Witness ==
  /\ stats.totalRequests > prior.calls
  /\ stats.throttledRequests >= 1
  /\ stats.failedRequests >= 1
  /\ lastResetDay # 0

\* C17: dailyCredits and stats.dailyCreditsUsed are set to 0 by every
\* transition that changes the stored day (a daily check that sees another
\* date), and no other transition, a daily check with the same date
\* included, decreases them.
C17_DailyReset ==
  [][/\ (lastResetDay' # lastResetDay)
          => (dailyCredits' = 0 /\ stats'.dailyCreditsUsed = 0)
     /\ (lastResetDay' = lastResetDay)
          => /\ dailyCredits' >= dailyCredits
             /\ stats'.dailyCreditsUsed >= stats.dailyCreditsUsed]_vars

\* A day change has cleared counters that held the previous day's usage, and
\* they have grown again since.
C17_Witness ==
  /\ lastResetDay # 0
  /\ prior.day > 0
  /\ dailyCredits > 0
  /\ dailyCredits < prior.day
  /\ stats.dailyCreditsUsed = dailyCredits

\* Batch sizing on a limiter just constructed: a caller asks for the batch
\* size of some positive integer cost, or for the exported configuration.
InitBatch ==
  /\ secondlyCredits = 0
  /\ dailyCredits = 0
  /\ stats = [totalRequests |-> 0, throttledRequests |-> 0, failedRequests |-> 0,
              dailyCreditsUsed |-> 0]
  /\ recent = 0
  /\ prior = [second |-> 0, day |-> 0, calls |-> 0]
  /\ warned = FALSE
  /\ startedToday = 0
  /\ creditsPerOperation \in 1..MaxCost
  /\ advice = NoAdvice
  /\ lastResetDay = 0
  /\ queue = <<>>
  /\ processing = FALSE
  /\ reqs = [id \in Ids |-> [method |-> "none", retries |-> 0, maxRetries |-> 0]]
  /\ promise = [id \in Ids |-> [state |-> "unsubmitted", value |-> NoValue,
                                resolves |-> 0, rejects |-> 0]]
  /\ nextId = 1
  /\ loops = <<>>
  /\ secTimer = delay(RESET_INTERVAL_MS)
  /\ trace = <<>>

\* A call of calculateOptimalBatchSize(creditsPerOperation).
CalculateOptimalBatchSize ==
  /\ advice' = [NoAdvice EXCEPT !.kind = "size",
                                !.batchSize = calculateOptimalBatchSize(creditsPerOperation)]
  /\ UNCHANGED <<limiter, creditsPerOperation>>

\* A call of the exported getOptimalBatchConfig().
GetOptimalBatchConfig ==
  /\ advice' = getOptimalBatchConfig
  /\ UNCHANGED <<limiter, creditsPerOperation>>

NextBatch ==
  \/ CalculateOptimalBatchSize
  \/ GetOptimalBatchConfig

SpecBatch == InitBatch /\ [][NextBatch]_vars

\* C18: for every positive integer cost the batch size returned is the
\* largest b <= MAX_BATCH_SIZE with b * cost <= 320 (80% of
\* SAFE_CREDITS_PER_SECOND), that is min(floor(320 / cost), 50); it is 16 for
\* cost 20; the exported configuration has batchSize 16,
\* delayBetweenBatches 3000 and maxConcurrentBatches 1.
C18_BatchSizing ==
  /\ advice.kind = "size" =>
       LET b == advice.batchSize
           c == creditsPerOperation
       IN /\ b >= 0
          /\ b <= 50
          /\ b * c <= 320
          /\ b = 50 \/ (b + 1) * c > 320
          /\ c = 20 => b = 16
  /\ advice.kind = "config" =>
       /\ advice.batchSize = 16
       /\ advice.delayBetweenBatches = 3000
       /\ advice.maxConcurrentBatches = 1

\* A cost for which the cap decides: floor(320 / 6) = 53, the answer is 50.
C18_Witness ==
  /\ advice.kind = "size"
  /\ creditsPerOperation = 6
  /\ advice.batchSize = 50

\* C19: getStats returns remainingDailyCredits = MAX_CREDITS_PER_DAY -
\* currentDayCredits, which is never negative, the two counters as they are,
\* the statistics as they are, and the number of queued entries.  getStats is
\* an operator on the state, and Monitor, the step that calls it, leaves
\* every field of the limiter unchanged.
C19_StatsConsistent ==
  /\ getStats.remainingDailyCredits = MAX_CREDITS_PER_DAY - getStats.currentDayCredits
  /\ getStats.remainingDailyCredits >= 0
  /\ getStats.currentSecondCredits = secondlyCredits
  /\ getStats.currentDayCredits = dailyCredits
  /\ getStats.queueLength = Len(queue)
  /\ getStats.totalRequests = stats.totalRequests
  /\ getStats.throttledRequests = stats.throttledRequests
  /\ getStats.failedRequests = stats.failedRequests
  /\ getStats.dailyCreditsUsed = stats.dailyCreditsUsed

\* The monitor has read the statistics; nothing is left of the day's credits,
\* one entry is queued and one operation is in flight.
C19_Witness ==
  /\ warned
  /\ getStats.remainingDailyCredits = 0
  /\ getStats.queueLength = 1
  /\ Cardinality(InFlight) = 1

\* Credits of the attempts started at the positions from..Len(tr) of tr.
\* Before the first daily reset startedToday is this sum over the whole
\* history.
RECURSIVE CreditsStarted(_, _)
CreditsStarted(tr, from) ==
  IF from > Len(tr) THEN 0
  ELSE (IF tr[from].ev = "start"
          THEN getCreditsForMethod(reqs[tr[from].id].method) ELSE 0)
       + CreditsStarted(tr, from + 1)

\* What the daily counter held before the first attempt of this history.
CarriedOver == IF lastResetDay = 0 THEN prior.day + prior.second ELSE 0

\* C20: usage is recorded once per attempt started and at no other time:
\* totalRequests is the number of attempts started (retries included), and
\* dailyCredits is the sum of the costs of the attempts started since the
\* last daily reset, whatever became of them.
C20_UsagePerAttempt ==
  /\ stats.totalRequests = prior.calls + Started
  /\ dailyCredits = CarriedOver + startedToday
  /\ stats.dailyCreditsUsed = dailyCredits
  /\ LET everStarted == CreditsStarted(trace, 1)
     IN /\ lastResetDay = 0 => startedToday = everStarted
        /\ startedToday <= everStarted

\* An operation was retried, a daily reset came between two attempts, and a
\* denial was counted.
C20_Witness ==
  /\ Started >= 2
  /\ \E i \in Positions : trace[i].ev = "retry"
  /\ lastResetDay # 0
  /\ startedToday > 0
  /\ startedToday < CreditsStarted(trace, 1)
  /\ stats.throttledRequests >= 1
  /\ dailyCredits > 0

\* ---------------------------------------------------------------- C21-C30
\* A step that starts an attempt: its last event is a start.
StartStep ==
  /\ Len(trace') > Len(trace)
  /\ trace'[Len(trace')].ev = "start"

StartedCost == getCreditsForMethod(reqs'[trace'[Len(trace')].id].method)

\* C21: the admission check and the recording of usage are one step.  A step
\* that starts an attempt charges exactly its cost to the counters as they
\* stood when the step began (a reset or a submit cannot come in between)
\* and leaves them within their ceilings; no other step raises a counter.
C21_AtomicAdmission ==
  [][/\ StartStep =>
          /\ secondlyCredits' = secondlyCredits + StartedCost
          /\ dailyCredits' = dailyCredits + StartedCost
          /\ stats'.totalRequests = stats.totalRequests + 1
          /\ secondlyCredits' <= SAFE_CREDITS_PER_SECOND
          /\ dailyCredits' <= MAX_CREDITS_PER_DAY
     /\ ~StartStep =>
          /\ secondlyCredits' <= secondlyCredits
          /\ dailyCredits' <= dailyCredits
          /\ stats'.totalRequests = stats.totalRequests]_vars

\* An attempt was started after a per-second reset had cleared a counter
\* that stood above what the attempt needed.
C21_Witness ==
  /\ Cardinality(InFlight) = 1
  /\ prior.second > 0
  /\ secondlyCredits < prior.second
  /\ secondlyCredits > 0
  /\ stats.throttledRequests >= 1

\* C22: when the processing flag is false the queue is empty, and a queued
\* entry always has an activation of processQueue that will come to it
\* (suspended on a wait or on an operation).
C22_NoLostWakeup ==
  /\ ~processing => Len(queue) = 0
  /\ Len(queue) > 0 => Len(loops) >= 1

TimesQueued(id) == Cardinality({i \in 1..Len(queue) : queue[i] = id})
TimesHeld(id) ==
  Cardinality({i \in 1..Len(loops) :
                 loops[i].pc \in {"exec", "backoff"} /\ loops[i].req = id})

\* C23: a submitted operation that is not settled is in exactly one place,
\* once: in the queue, or held by the loop while it executes or waits in
\* backoff; a settled operation (and one not submitted yet) is in neither.
C23_EntryConservation ==
  \A id \in DOMAIN promise :
    IF promise[id].state = "pending"
      THEN TimesQueued(id) + TimesHeld(id) = 1
      ELSE TimesQueued(id) + TimesHeld(id) = 0

\* The activation a denial has just suspended.
Denied == loops'[Len(loops')]

\* C24: a step in which the head is denied raises throttledRequests by
\* exactly 1 and emits one 'throttled' event with the head's method and the
\* reason canProceed gives; the counters, totalRequests and the retries of
\* the queued entries are as before and the queued entries keep their places.
\* When the loop wakes from the wait nothing else has changed and it is the
\* same head that is evaluated: denied again or started.
C24_ThrottleStep ==
  /\ [][DenialStep =>
          /\ stats'.throttledRequests = stats.throttledRequests + 1
          /\ Len(queue') >= 1
          /\ Denied.pc = "throttle"
          /\ Denied.emitted.method = reqs'[Head(queue')].method
          /\ Denied.emitted.reason
               = canProceed(Denied.emitted.method, secondlyCredits', dailyCredits').reason
          /\ Denied.emitted.reason
               \in {"Daily credit limit exceeded", "Per-second rate limit"}
          /\ secondlyCredits' = secondlyCredits
          /\ dailyCredits' = dailyCredits
          /\ stats'.totalRequests = stats.totalRequests
          /\ KeptIn(queue, queue')
          /\ \A i \in 1..Len(queue) : reqs'[queue[i]] = reqs[queue[i]]]_vars
  /\ [][(Throttled /\ DenialStep) =>
          /\ queue' = queue
          /\ reqs' = reqs
          /\ promise' = promise
          /\ stats'.failedRequests = stats.failedRequests
          /\ trace' = trace]_vars
  /\ [][(Throttled /\ StartStep) =>
          /\ trace'[Len(trace')].id = Head(queue)
          /\ queue' = Tail(queue)]_vars

\* The same head has been denied twice, the second time after the wait, for
\* the daily limit.
C24_Witness ==
  /\ Throttled
  /\ stats.throttledRequests >= 2
  /\ loops[1].emitted.reason = "Daily credit limit exceeded"
  /\ Len(trace) = 0
  /\ Len(queue) = 1

RetryStep ==
  /\ Len(trace') > Len(trace)
  /\ trace'[Len(trace')].ev = "retry"

TimesIn(q, id) == Cardinality({i \in 1..Len(q) : q[i] = id})

RetryEvents(tr, id) == {i \in 1..Len(tr) : tr[i].ev = "retry" /\ tr[i].id = id}

\* C25: the k-th transient failure of an entry sets its retries to k
\* (k = 1, 2, 3), emits a 'retry' event with retry = k and backoffMs =
\* 2^k * 1000 (2000, 4000, 8000) and suspends the loop for that long; the
\* entry is in the queue at no time of the wait and is back at the front
\* only when the wait is over; retries never go down.
C25_BackoffSchedule ==
  /\ [][RetryStep =>
          LET id == trace'[Len(trace')].id
              k == reqs'[id].retries
              waiting == loops'[Len(loops')]
          IN /\ k = reqs[id].retries + 1
             /\ k = Cardinality(RetryEvents(trace', id))
             /\ k \in 1..MAX_RETRIES
             /\ waiting.pc = "backoff"
             /\ waiting.req = id
             /\ waiting.emitted.retry = k
             /\ waiting.emitted.method = reqs[id].method
             /\ waiting.emitted.backoffMs = Pow2(k) * 1000
             /\ waiting.emitted.backoffMs \in {2000, 4000, 8000}
             /\ waiting.wait * RESET_INTERVAL_MS = waiting.emitted.backoffMs
             /\ TimesIn(queue', id) = 0]_vars
  /\ [](\A i \in InBackoff : TimesQueued(loops[i].req) = 0)
  /\ [][\A i \in InBackoff :
          (TimesIn(queue', loops[i].req) > 0 \/ StartStep) =>
             /\ loops[i].wait = 0
             /\ \/ (Len(queue') >= 1 /\ Head(queue') = loops[i].req)
                \/ (StartStep /\ trace'[Len(trace')].id = loops[i].req)]_vars
  /\ [][\A id \in DOMAIN reqs : reqs'[id].retries >= reqs[id].retries]_vars

\* The third transient failure of an entry: the loop waits 8000 ms.
C25_Witness ==
  \E i \in InBackoff :
    /\ reqs[loops[i].req].retries = MAX_RETRIES
    /\ loops[i].emitted.backoffMs = 8000
    /\ loops[i].wait = 8

\* The position of the last end of an attempt of id in the history.
LastEnd(id) == CHOOSE i \in Ended(id) : \A j \in Ended(id) : j <= i

\* C26: an entry whose attempts have so far ended in retries is pending and
\* has not been counted in failedRequests; after one or more retries, an
\* attempt that succeeds resolves the caller with its result, and an attempt
\* that fails with an error other than the rate-limit signal rejects the
\* caller with that error and is the entry's last attempt.
C26_TransientInvisible ==
  /\ stats.failedRequests = Cardinality(RejectEvents(trace))
  /\ \A id \in DOMAIN reqs :
       RetryEvents(trace, id) # {} =>
         LET last == trace[LastEnd(id)] IN
         /\ last.ev = "retry" => promise[id].state = "pending"
         /\ last.out = "ok" =>
              /\ promise[id].state = "resolved"
              /\ promise[id].value = [kind |-> "ok", id |-> id, attempt |-> last.attempt]
         /\ last.out \in {"err", "nullish"} =>
              /\ promise[id].state = "rejected"
              /\ promise[id].value =
                   [kind |-> last.out, id |-> id, attempt |-> last.attempt]
              /\ Attempts(trace, id) = last.attempt
              /\ TimesQueued(id) + TimesHeld(id) = 0

\* A step that ends a backoff wait: the waiting entry is queued or started.
WakesFromBackoff(i) ==
  /\ i \in InBackoff
  /\ loops[i].wait = 0
  /\ (TimesIn(queue', loops[i].req) > 0 \/ StartStep)

\* C27: a retry attempt passes admission like any other.  When the backoff
\* wait ends the entry is started only if canProceed allows it for the
\* counters of that moment, and is otherwise left at the head with the loop
\* throttled; a retry attempt that starts is charged its full cost to both
\* counters again.
C27_RetryAdmission ==
  /\ [][\A i \in 1..Len(loops) :
          WakesFromBackoff(i) =>
            LET id == loops[i].req
                allowed == canProceed(reqs[id].method, secondlyCredits,
                                      dailyCredits).allowed
            IN /\ allowed => (StartStep /\ trace'[Len(trace')].id = id)
               /\ ~allowed => /\ DenialStep
                              /\ ~StartStep
                              /\ Head(queue') = id
                              /\ secondlyCredits' = secondlyCredits
                              /\ dailyCredits' = dailyCredits]_vars
  /\ [][(StartStep /\ trace'[Len(trace')].attempt >= 2) =>
          /\ canProceed(reqs[trace'[Len(trace')].id].method, secondlyCredits,
                         dailyCredits).allowed
          /\ secondlyCredits' = secondlyCredits + StartedCost
          /\ dailyCredits' = dailyCredits + StartedCost
          /\ stats'.dailyCreditsUsed = stats.dailyCreditsUsed + StartedCost]_vars

\* An entry that came back from its backoff was denied: it waits at the head
\* with the loop throttled.
C27_Witness ==
  /\ Throttled
  /\ Len(queue) >= 1
  /\ reqs[Head(queue)].retries >= 1
  /\ trace[Len(trace)].ev = "retry"
  /\ trace[Len(trace)].id = Head(queue)

\* C28: a failure does not stop the drain loop.  As long as an entry is
\* queued, or the processing flag is set, an activation of processQueue
\* exists to go on; when none exists the queue is empty and the flag is
\* false, so the next queueRequest starts a drain.
C28_FailureKeepsDraining ==
  (Len(loops) = 0) => (Len(queue) = 0 /\ ~processing)

\* The limiter on a day whose budget the calls made before have almost used
\* up: at most one more call fits in the day. The calls succeed; the timers,
\* the submissions and the drain loop are those of Spec.
InitDaily ==
  /\ Init
  /\ prior.day > 0

NextDaily ==
  \/ \E m \in SubmitMethods : queueRequest(m)
  \/ SecondReset
  \/ \E currentDay \in Days : DailyReset(currentDay)
  \/ \E i \in 1..Len(loops) : ThrottleWake(i)
  \/ \E i \in 1..Len(loops) : Complete(i, "ok")
  \/ Tick

FairDaily ==
  /\ InitDaily
  /\ [][NextDaily]_vars
  /\ WF_vars(Tick)
  /\ WF_vars(SecondReset)
  /\ WF_vars(\E i \in 1..Len(loops) : ThrottleWake(i))
  /\ WF_vars(\E i \in 1..Len(loops) : Complete(i, "ok"))


\* The head of the queue does not fit in what is left of the day.
DailyBlocked ==
  /\ Len(queue) > 0
  /\ dailyCredits + getCreditsForMethod(reqs[Head(queue)].method) > MAX_CREDITS_PER_DAY

\* C29: while the head does not fit in the day's remaining credits and the
\* day does not change, every queued entry stays queued and pending and none
\* of them is started; each time the throttled loop wakes it counts one more
\* denial, for the daily limit, and changes nothing else.  Once a day change
\* has been seen by the daily check, a head the loop is waiting on is
\* eventually taken off the queue and executed (in the model: unless the cap
\* on the throttle counter keeps a per-second denial from being counted).
C29_DailyExhaustion ==
  /\ [][(DailyBlocked /\ lastResetDay' = lastResetDay) =>
          /\ KeptIn(queue, queue')
          /\ \A i \in 1..Len(queue) : promise'[queue[i]].state = "pending"
          /\ StartStep => TimesIn(queue, trace'[Len(trace')].id) = 0]_vars
  /\ [][(DailyBlocked /\ Throttled /\ lastResetDay' = lastResetDay
            /\ stats' # stats) =>
          /\ stats'.throttledRequests = stats.throttledRequests + 1
          /\ Denied.emitted.reason = "Daily credit limit exceeded"
          /\ trace' = trace
          /\ queue' = queue
          /\ dailyCredits' = dailyCredits]_vars
  /\ \A id \in Ids :
       (Throttled /\ Len(queue) > 0 /\ Head(queue) = id /\ lastResetDay # 0)
         ~> \/ TimesQueued(id) = 0
            \/ /\ stats.throttledRequests >= MaxThrottled
               /\ ~DailyBlocked
               /\ ~canProceed(reqs[Head(queue)].method, secondlyCredits,
                               dailyCredits).allowed

\* After a day of exhaustion in which the head was denied, the day changed
\* and the head was started.
C29_Witness ==
  /\ prior.day > 0
  /\ lastResetDay # 0
  /\ stats.throttledRequests >= 1
  /\ stats.throttledRequests < MaxThrottled
  /\ Len(trace) = 1
  /\ dailyCredits = startedToday
  /\ dailyCredits > 0

\* C30: stats.dailyCreditsUsed equals dailyCredits in every reachable state:
\* every step changes the two by the same amount, a start adding the cost of
\* the method to both and a daily check that sees another date setting both
\* to 0, and no other step writes either.
C30_DailyUsedMirrors ==
  /\ [](stats.dailyCreditsUsed = dailyCredits)
  /\ [][/\ stats'.dailyCreditsUsed - stats.dailyCreditsUsed
           = dailyCredits' - dailyCredits
        /\ StartStep => dailyCredits' = dailyCredits + StartedCost
        /\ (lastResetDay' # lastResetDay) => stats'.dailyCreditsUsed = 0
        /\ (~StartStep /\ lastResetDay' = lastResetDay)
             => (dailyCredits' = dailyCredits
                 /\ stats'.dailyCreditsUsed = stats.dailyCreditsUsed)]_vars

\* Attempts were started on both sides of a daily reset: the two counters
\* hold the cost of those started since, less than the cost of all of them.
C30_Witness ==
  /\ lastResetDay # 0
  /\ prior.day = 0
  /\ stats.dailyCreditsUsed > 0
  /\ stats.dailyCreditsUsed = startedToday
  /\ dailyCredits < CreditsStarted(trace, 1)

\* ---------------------------------------------------------------- C31-C33
\* A step of the per-second interval callback: the only step that rearms the
\* per-second timer.
ResetStep == secTimer' > secTimer

Submitted == {id \in Ids : promise[id].state # "unsubmitted"}

\* C32: every submitted entry has maxRetries = 3 and 0 <= retries <=
\* maxRetries in every reachable state, and has been executed at most
\* retries + 1 <= 4 times; retries is 0 when the entry is submitted and
\* changes only by +1, in the step where an attempt of that entry fails with
\* code 429.
C32_RetryBound ==
  /\ [](\A id \in Submitted :
          /\ reqs[id].maxRetries = 3
          /\ reqs[id].retries >= 0
          /\ reqs[id].retries <= reqs[id].maxRetries
          /\ Attempts(trace, id) <= reqs[id].retries + 1
          /\ Attempts(trace, id) <= 4)
  /\ [][\A id \in Ids :
          /\ (promise[id].state = "unsubmitted" /\ promise'[id].state # "unsubmitted")
               => reqs'[id].retries = 0
          /\ (id \in Submitted /\ reqs'[id].retries # reqs[id].retries)
               => /\ reqs'[id].retries = reqs[id].retries + 1
                  /\ RetryStep
                  /\ trace'[Len(trace')].id = id
                  /\ trace'[Len(trace')].out = "e429"]_vars

\* An entry has used its three retries and its fourth attempt has failed
\* with 429 as well: it is rejected, its count still 3, while another entry
\* has not been retried at all.
C32_Witness ==
  \E id \in Submitted, other \in Submitted :
    /\ reqs[id].retries = MAX_RETRIES
    /\ Attempts(trace, id) = MAX_RETRIES + 1
    /\ promise[id].state = "rejected"
    /\ promise[id].value.kind = "e429"
    /\ other # id
    /\ reqs[other].retries = 0

\* The costs the advisor is asked about while the limiter is at work: the
\* smallest, the default cost, the cost the exported configuration assumes
\* and the largest.
AdvisedCosts == {1, DEFAULT_CREDITS, ASSUMED_CREDITS, MaxCost}

\* A call of calculateOptimalBatchSize(c) on the limiter as it is.
CalculateOptimalBatchSizeOf(c) ==
  /\ creditsPerOperation' = c
  /\ advice' = [NoAdvice EXCEPT !.kind = "size",
                                !.batchSize = calculateOptimalBatchSize(c)]
  /\ UNCHANGED limiter

\* The limiter at work, its calls succeeding, with the advisor called at any
\* moment.
NextAdvised ==
  \/ \E m \in SubmitMethods : queueRequest(m)
  \/ SecondReset
  \/ \E currentDay \in Days : DailyReset(currentDay)
  \/ \E i \in 1..Len(loops) : ThrottleWake(i)
  \/ \E i \in 1..Len(loops) : Complete(i, "ok")
  \/ Tick
  \/ \E c \in AdvisedCosts : CalculateOptimalBatchSizeOf(c)
  \/ GetOptimalBatchConfig

SpecAdvised == Init /\ [][NextAdvised]_vars

\* A step in which the advisor answered.
AdvisorStep == advice' # advice \/ creditsPerOperation' # creditsPerOperation

\* C33: the advisor is advisory only.  A call of calculateOptimalBatchSize or
\* getOptimalBatchConfig leaves every field of the limiter as it was; what
\* they return for a given cost is the same before and after every step,
\* whatever that step did to the counters, the queue and the statistics;
\* and the answer of canProceed for every method is the same before and
\* after a call of the advisor.
C33_AdvisoryOnly ==
  /\ [][AdvisorStep => UNCHANGED limiter]_vars
  /\ [][/\ \A c \in AdvisedCosts :
            calculateOptimalBatchSize(c)' = calculateOptimalBatchSize(c)
        /\ getOptimalBatchConfig' = getOptimalBatchConfig]_vars
  /\ [][AdvisorStep =>
          \A m \in SubmitMethods :
            canProceed(m, secondlyCredits, dailyCredits)'
              = canProceed(m, secondlyCredits, dailyCredits)]_vars

\* The advisor has answered 16 for cost 20 while the per-second counter is
\* above the 320 credits it plans with and the loop waits on a denied head.
C33_Witness ==
  /\ advice.kind = "size"
  /\ creditsPerOperation = ASSUMED_CREDITS
  /\ advice.batchSize = 16
  /\ secondlyCredits > 320
  /\ Throttled
  /\ Len(queue) >= 1

====
